---------------------------- MODULE Spec2Model ----------------------------
(***************************************************************************)
(* Countdown image server (EmailCountdownTimer).                           *)
(*                                                                         *)
(* Two programs are modelled:                                              *)
(*   src/server.js          endpoints /countdown.png and /countdown.gif,   *)
(*                          the GIF driven by an fps parameter;            *)
(*   src/unnamed/part_000   endpoint /countdown.gif, one frame per second, *)
(*                          180 frames.                                    *)
(* In the model the three handlers are told apart by `endpoint`:           *)
(*   "png", "gif" (server.js) and "gif1s" (part_000).                      *)
(*                                                                         *)
(* Instants are whole seconds.  A JavaScript number is a record            *)
(* [nan, v]: NaN is a value of its own and propagates through Math.max,    *)
(* Math.min, Math.round and the comparisons exactly as in JavaScript.      *)
(* Colours and the font list are passed through by the code and are not    *)
(* part of the model.                                                      *)
(***************************************************************************)
EXTENDS Integers, Sequences, FiniteSets

VARIABLES
    now,        \* wall clock, seconds
    pc,         \* position of the request being handled
    endpoint,   \* which handler is running
    q,          \* req.query of the request
    p,          \* result of getParams
    total,      \* remaining seconds captured once before the frame loop
    i,          \* loop index of the frame loop
    enc,        \* the GIFEncoder: repeat, delay, started, finished
    nframes,    \* loop bound of the frame loop (a JavaScript number)
    frames,     \* frames rendered and added so far
    hdr,        \* headers set on res so far
    responses,  \* responses sent for the request
    sIn,        \* input of a direct splitDHMS call
    dhmsOut,    \* its result
    splitPc,    \* position of the direct splitDHMS call
    pairPc,     \* position of the two-sequence comparison
    pairCfg,    \* the config and captured start value both sequences share
    seqA,       \* first sequence
    seqB,       \* second sequence
    pairClock,  \* clock reading at the last frame of each sequence
    fault       \* what failed while the request was handled, "none" if nothing

vars == <<now, pc, endpoint, q, p, total, i, enc, nframes, frames, hdr,
          responses, fault, sIn, dhmsOut, splitPc, pairPc, pairCfg, seqA, seqB,
          pairClock>>

mainVars  == <<pc, endpoint, q, p, total, i, enc, nframes, frames, hdr, responses,
               fault>>
splitVars == <<sIn, dhmsOut, splitPc>>
pairVars  == <<pairPc, pairCfg, seqA, seqB, pairClock>>

(***************************************************************************)
(* Bounds of the model.                                                    *)
(***************************************************************************)
MaxNow == 2
MaxSeconds == 100000

(***************************************************************************)
(* JavaScript numbers.                                                     *)
(***************************************************************************)
Num(v) == [nan |-> FALSE, v |-> v]
NaN == [nan |-> TRUE, v |-> 0]

MathMax(a, b) == IF a.nan \/ b.nan THEN NaN ELSE IF a.v >= b.v THEN a ELSE b
MathMin(a, b) == IF a.nan \/ b.nan THEN NaN ELSE IF a.v <= b.v THEN a ELSE b

\* Math.round(a / b) for b > 0: the nearest integer, halves rounded up.
RoundDiv(a, b) == (2 * a + b) \div (2 * b)

\* a < b on JavaScript numbers: false whenever either side is NaN.
JsLess(a, b) == ~a.nan /\ ~b.nan /\ a.v < b.v

IntMax(a, b) == IF a >= b THEN a ELSE b

(***************************************************************************)
(* Raw query values.  A value of req.query is absent, the empty string,    *)
(* a decimal integer ("800", "-5"), a decimal integer followed by other    *)
(* characters ("500px") or a string with no leading integer ("abc").       *)
(***************************************************************************)
Absent     == [k |-> "absent", v |-> 0]
Empty      == [k |-> "empty", v |-> 0]
Junk       == [k |-> "junk", v |-> 0]
IntStr(n)  == [k |-> "int", v |-> n]
IntPx(n)   == [k |-> "intpx", v |-> n]

\* q.x || "d": an absent or empty value is falsy and gives the default.
OrDefault(raw, d) == IF raw.k \in {"absent", "empty"} THEN IntStr(d) ELSE raw

\* parseInt(s, 10): the leading integer of the string, NaN when there is none.
parseInt(raw) == IF raw.k \in {"int", "intpx"} THEN Num(raw.v) ELSE NaN

(***************************************************************************)
(* Time zones and dayjs.  dayjs resolves a zone id through                 *)
(* Intl.DateTimeFormat, which raises a RangeError for an id it does not    *)
(* know.  A deadline string is read as a local time of the zone.           *)
(***************************************************************************)
KnownZones == {"UTC", "Australia/Perth"}
ZoneOffset(z) == IF z = "Australia/Perth" THEN 28800 ELSE 0

NoInstant == [valid |-> FALSE, t |-> 0]
Instant(t) == [valid |-> TRUE, t |-> t]

\* dayjs.tz(to, zone): [threw, valid, t]
dayjsTz(to, zone) ==
    IF zone \notin KnownZones THEN [threw |-> TRUE, valid |-> FALSE, t |-> 0]
    ELSE IF to.k = "date"
         THEN [threw |-> FALSE, valid |-> TRUE, t |-> to.v - ZoneOffset(zone)]
         ELSE [threw |-> FALSE, valid |-> FALSE, t |-> 0]

\* dayjs().tz(zone): the current instant, [threw, valid, t]
dayjsNowTz(clock, zone) ==
    IF zone \notin KnownZones THEN [threw |-> TRUE, valid |-> FALSE, t |-> 0]
    ELSE [threw |-> FALSE, valid |-> TRUE, t |-> clock]

Thrown == [threw |-> TRUE, target |-> NoInstant, timezone |-> "",
           width |-> NaN, height |-> NaN, fps |-> NaN]

\* The part getParams of both files share; the files differ in the fps range
\* and default only (24 hours and 1 day are the same span in the zones modelled).
\* The result is Thrown when a dayjs call raised.
getParams(query, clock, fpsMax, fpsDefault) ==
    LET timezone == IF query.tz = "" THEN "UTC" ELSE query.tz
        width  == MathMax(Num(400), MathMin(Num(2000), parseInt(OrDefault(query.w, 800))))
        height == MathMax(Num(120), MathMin(Num(800), parseInt(OrDefault(query.h, 200))))
        fps    == MathMax(Num(1), MathMin(Num(fpsMax), parseInt(OrDefault(query.fps, fpsDefault))))
        hasTo  == query.to.k \notin {"absent", "empty"}
        parsed == dayjsTz(query.to, timezone)
        useDefault == ~hasTo \/ ~parsed.valid
        fallback == dayjsNowTz(clock, timezone)
        target == IF useDefault THEN Instant(fallback.t + 86400) ELSE Instant(parsed.t)
    IN  IF (hasTo /\ parsed.threw) \/ (useDefault /\ fallback.threw) THEN Thrown
        ELSE [threw |-> FALSE, target |-> target, timezone |-> timezone,
              width |-> width, height |-> height, fps |-> fps]

getParamsA(query, clock) == getParams(query, clock, 20, 10)
getParamsB(query, clock) == getParams(query, clock, 10, 2)

(***************************************************************************)
(* splitDHMS.  \div and % of TLA+ are floor division and its remainder,    *)
(* as Math.floor(s / n) and s % n are once s is not negative.              *)
(***************************************************************************)
splitDHMS_NoModulo(totalSeconds) ==
    LET s == IntMax(0, totalSeconds)
    IN  [days |-> s \div 86400, hours |-> s \div 3600,
         minutes |-> (s % 3600) \div 60, seconds |-> s % 60]

splitDHMS_NoClamp(totalSeconds) ==
    LET s == totalSeconds
    IN  [days |-> s \div 86400, hours |-> (s % 86400) \div 3600,
         minutes |-> (s % 3600) \div 60, seconds |-> s % 60]

splitDHMS(totalSeconds) ==
    LET s == IntMax(0, totalSeconds)
    IN  [days |-> s \div 86400, hours |-> (s % 86400) \div 3600,
         minutes |-> (s % 3600) \div 60, seconds |-> s % 60]

ZeroDHMS == [days |-> 0, hours |-> 0, minutes |-> 0, seconds |-> 0]

\* The seconds a decomposition stands for.
Shown(d) == d.days * 86400 + d.hours * 3600 + d.minutes * 60 + d.seconds

(***************************************************************************)
(* svgMarkup.  The markup is determined by the canvas size, the four       *)
(* padded digit strings and the opacity of the separators (in hundredths). *)
(***************************************************************************)
RECURSIVE Digits(_)
Digits(n) == IF n < 10 THEN <<n>> ELSE Append(Digits(n \div 10), n % 10)

\* n.toString().padStart(2, "0")
pad2(n) == IF n < 10 THEN <<0, n>> ELSE Digits(n)

svgMarkup(params, dhms, blink) ==
    [width |-> params.width, height |-> params.height,
     padDays |-> pad2(dhms.days), hours |-> pad2(dhms.hours),
     minutes |-> pad2(dhms.minutes), seconds |-> pad2(dhms.seconds),
     sepOpacity |-> IF blink THEN 25 ELSE 100]

(***************************************************************************)
(* The frames.  A frame records the remaining value it was computed from,  *)
(* its decomposition, its blink flag and its markup.                       *)
(***************************************************************************)
\* renderPNGBuffer: one frame, never blinking.
RenderStill(params, clock) ==
    LET diff == params.target.t - clock
        dhms == splitDHMS(diff)
    IN  [remain |-> diff, dhms |-> dhms, blink |-> FALSE,
         svg |-> svgMarkup(params, dhms, FALSE)]

\* server.js, renderGIFBuffer: frame count and delay from fps.
FrameCountA(params) ==
    IF params.fps.nan THEN NaN
    ELSE MathMin(Num(60), MathMax(Num(1), Num(params.fps.v * 6)))

DelayCsA(params) ==
    IF params.fps.nan THEN NaN ELSE Num(RoundDiv(100, params.fps.v))

DelayMsA(params) ==
    IF DelayCsA(params).nan THEN NaN ELSE Num(DelayCsA(params).v * 10)

\* frameNow = dayjs().add(i / fps, "second"), in milliseconds
FrameNowMs(clock, k, params) == clock * 1000 + (k * 1000) \div params.fps.v

\* A loop body that takes the remaining value from the clock read in the loop.
RenderFrameA_Resample(params, totalSeconds, k, frameNow) ==
    LET remain == IntMax(0, params.target.t - frameNow \div 1000)
        dhms   == splitDHMS(remain)
        blink  == (k % RoundDiv(params.fps.v, 2)) = 0
    IN  [remain |-> remain, dhms |-> dhms, blink |-> blink,
         svg |-> svgMarkup(params, dhms, blink)]

\* server.js, the body of the frame loop; frameNow is computed and not used.
RenderFrameA(params, totalSeconds, k, frameNow) ==
    LET remain == IntMax(0, totalSeconds - k)
        dhms   == splitDHMS(remain)
        blink  == (k % RoundDiv(params.fps.v, 2)) = 0
    IN  [remain |-> remain, dhms |-> dhms, blink |-> blink,
         svg |-> svgMarkup(params, dhms, blink)]

\* part_000, renderGIF: 180 frames of one second each.
Gif1sFrames_Short == 180 - 1
Gif1sFrames == 180
Gif1sDelay == 1000

\* part_000, the body of the frame loop: (i % fps) < fps / 2, false for a NaN fps.
RenderFrameB(params, tot, k) ==
    LET remain == tot - k
        dhms   == splitDHMS(remain)
        blink  == ~params.fps.nan /\ 2 * (k % params.fps.v) < params.fps.v
    IN  [remain |-> remain, dhms |-> dhms, blink |-> blink,
         svg |-> svgMarkup(params, dhms, blink)]

(***************************************************************************)
(* The encoder and the response.                                           *)
(***************************************************************************)
NoEnc == [started |-> FALSE, finished |-> FALSE, repeat |-> Num(-1), delay |-> Num(0)]

NoHeaders == [contentType |-> "", cacheControl |-> {}]
NoStore == {"no-store", "no-cache", "must-revalidate", "max-age=0"}

ImageTypes == {"image/png", "image/gif"}

\* res.set("Content-Type", mime); res.set("Cache-Control", ...); res.send(buf):
\* buf is what the encoder put out, n frames, closed or not.
SendImage(mime, n, closed) ==
    [status |-> 200, contentType |-> mime, cacheControl |-> NoStore,
     body |-> [kind |-> "image", text |-> "", frames |-> n, finished |-> closed]]

\* A catch block that answers with what the encoder holds so far.
CatchSend_Partial(headers, text) ==
    [status |-> 200, contentType |-> "image/gif", cacheControl |-> NoStore,
     body |-> [kind |-> "image", text |-> "", frames |-> Len(frames),
               finished |-> FALSE]]

\* catch (e) { res.status(500).send(text) }: express gives a string body the
\* type text/html unless a Content-Type was set before.
CatchSend(headers, text) ==
    [status |-> 500,
     contentType |-> IF headers.contentType = "" THEN "text/html"
                     ELSE headers.contentType,
     cacheControl |-> headers.cacheControl,
     body |-> [kind |-> "text", text |-> text, frames |-> 0, finished |-> FALSE]]

(***************************************************************************)
(* Requests.                                                               *)
(***************************************************************************)
Date(t) == [k |-> "date", v |-> t]

ToInputs  == {Absent, Junk, Date(0), Date(3), Date(90125)}
FpsInputs == {Absent, Junk, IntStr(0), IntStr(1), IntStr(2), IntStr(3),
              IntStr(20), IntStr(1000)}

\* Every deadline with every fps in the default zone; a named zone, known and
\* unknown; and requests that carry a duration.
Queries ==
    [to : ToInputs, tz : {""}, w : {Absent}, h : {Absent},
     fps : FpsInputs, dur : {Absent}]
    \cup [to : {Absent, Date(28803)}, tz : {"Australia/Perth", "Mars/Olympus"},
          w : {Absent}, h : {Absent}, fps : {Absent}, dur : {Absent}]
    \cup [to : {Absent, Date(3)}, tz : {""}, w : {Absent}, h : {Absent},
          fps : {Absent, IntStr(1)}, dur : {IntStr(120)}]

NoQuery == [to |-> Absent, tz |-> "", w |-> Absent, h |-> Absent,
            fps |-> Absent, dur |-> Absent]

MainIdle ==
    /\ pc = "idle"
    /\ endpoint = "none"
    /\ q = NoQuery
    /\ p = Thrown
    /\ total = 0
    /\ i = 0
    /\ enc = NoEnc
    /\ nframes = Num(0)
    /\ frames = <<>>
    /\ hdr = NoHeaders
    /\ responses = <<>>
    /\ fault = "none"

SplitIdle ==
    /\ sIn = 0
    /\ dhmsOut = ZeroDHMS
    /\ splitPc = "idle"

NoPair == [profile |-> "none", params |-> Thrown, total |-> 0, count |-> Num(0)]

PairIdle ==
    /\ pairPc = "idle"
    /\ pairCfg = NoPair
    /\ seqA = <<>>
    /\ seqB = <<>>
    /\ pairClock = <<0, 0>>

Init ==
    /\ now = 0
    /\ MainIdle
    /\ SplitIdle
    /\ PairIdle

\* Time passes, between requests and while one is rendered.
Tick ==
    /\ now < MaxNow
    /\ now' = now + 1
    /\ UNCHANGED <<mainVars, splitVars, pairVars>>

\* What every handler does on entry: a fresh request, nothing sent, nothing set.
Accept(name, query) ==
    /\ pc = "idle"
    /\ endpoint' = name
    /\ q' = query

\* The catch block of a handler: one 500 response, the request is over.
Fail(what, text, headers) ==
    /\ fault' = what
    /\ responses' = <<CatchSend(headers, text)>>
    /\ pc' = "done"

\* server.js, app.get /countdown.png: the whole handler.
HandlePng ==
    \E query \in Queries, rasterOk \in BOOLEAN :
        LET params == getParamsA(query, now) IN
        /\ Accept("png", query)
        /\ p' = params
        /\ enc' = NoEnc
        /\ i' = 0
        /\ nframes' = Num(1)
        /\ IF params.threw
           THEN /\ Fail("params", "PNG rendering error", NoHeaders)
                /\ hdr' = NoHeaders
                /\ total' = 0
                /\ frames' = <<>>
           ELSE IF ~rasterOk
           THEN /\ Fail("raster", "PNG rendering error", NoHeaders)
                /\ hdr' = NoHeaders
                /\ total' = params.target.t - now
                /\ frames' = <<>>
           ELSE /\ total' = params.target.t - now
                /\ frames' = <<RenderStill(params, now)>>
                /\ fault' = "none"
                /\ hdr' = [contentType |-> "image/png", cacheControl |-> NoStore]
                /\ responses' = <<SendImage("image/png", 1, TRUE)>>
                /\ pc' = "done"
        /\ UNCHANGED <<now, splitVars, pairVars>>

\* server.js, app.get /countdown.gif up to the frame loop of renderGIFBuffer.
HandleGif ==
    \E query \in Queries :
        LET params == getParamsA(query, now) IN
        /\ Accept("gif", query)
        /\ p' = params
        /\ hdr' = NoHeaders
        /\ i' = 0
        /\ frames' = <<>>
        /\ IF params.threw
           THEN /\ Fail("params", "GIF rendering error", NoHeaders)
                /\ total' = 0
                /\ nframes' = Num(0)
                /\ enc' = NoEnc
           ELSE /\ total' = IntMax(0, params.target.t - now)
                /\ nframes' = FrameCountA(params)
                /\ enc' = [started |-> TRUE, finished |-> FALSE, repeat |-> Num(0),
                           delay |-> DelayMsA(params)]
                /\ fault' = "none"
                /\ responses' = <<>>
                /\ pc' = "loop"
        /\ UNCHANGED <<now, splitVars, pairVars>>

\* server.js, one pass of the frame loop: render, rasterize, addFrame.
GifFrame ==
    /\ pc = "loop"
    /\ endpoint = "gif"
    /\ JsLess(Num(i), nframes)
    /\ \E ok \in BOOLEAN :
        IF ok
        THEN /\ frames' = Append(frames, RenderFrameA(p, total, i, FrameNowMs(now, i, p)))
             /\ i' = i + 1
             /\ UNCHANGED <<pc, fault, responses>>
        ELSE /\ Fail("raster", "GIF rendering error", hdr)
             /\ UNCHANGED <<frames, i>>
    /\ UNCHANGED <<now, endpoint, q, p, total, enc, nframes, hdr, splitVars, pairVars>>

\* server.js, after the loop: enc.finish(), then the headers and the response.
GifFinish ==
    /\ pc = "loop"
    /\ endpoint = "gif"
    /\ ~JsLess(Num(i), nframes)
    /\ \E ok \in BOOLEAN :
        IF ok
        THEN /\ enc' = [enc EXCEPT !.finished = TRUE]
             /\ hdr' = [contentType |-> "image/gif", cacheControl |-> NoStore]
             /\ responses' = <<SendImage("image/gif", Len(frames), enc'.finished)>>
             /\ pc' = "done"
             /\ UNCHANGED fault
        ELSE /\ Fail("encode", "GIF rendering error", hdr)
             /\ UNCHANGED <<enc, hdr>>
    /\ UNCHANGED <<now, endpoint, q, p, total, i, nframes, frames, splitVars, pairVars>>

\* part_000, app.get /countdown.gif up to the frame loop of renderGIF.
HandleGif1s ==
    \E query \in Queries :
        LET params == getParamsB(query, now) IN
        /\ Accept("gif1s", query)
        /\ p' = params
        /\ hdr' = NoHeaders
        /\ i' = 0
        /\ frames' = <<>>
        /\ IF params.threw
           THEN /\ Fail("params", "GIF error", NoHeaders)
                /\ total' = 0
                /\ nframes' = Num(0)
                /\ enc' = NoEnc
           ELSE /\ total' = IntMax(0, params.target.t - now)
                /\ nframes' = Num(Gif1sFrames)
                /\ enc' = [started |-> TRUE, finished |-> FALSE, repeat |-> Num(0),
                           delay |-> Num(Gif1sDelay)]
                /\ fault' = "none"
                /\ responses' = <<>>
                /\ pc' = "loop"
        /\ UNCHANGED <<now, splitVars, pairVars>>

\* part_000, one pass of the frame loop.
Gif1sFrame ==
    /\ pc = "loop"
    /\ endpoint = "gif1s"
    /\ JsLess(Num(i), nframes)
    /\ \E ok \in BOOLEAN :
        IF ok
        THEN /\ frames' = Append(frames, RenderFrameB(p, total, i))
             /\ i' = i + 1
             /\ UNCHANGED <<pc, fault, responses>>
        ELSE /\ Fail("raster", "GIF error", hdr)
             /\ UNCHANGED <<frames, i>>
    /\ UNCHANGED <<now, endpoint, q, p, total, enc, nframes, hdr, splitVars, pairVars>>

\* part_000, after the loop.
Gif1sFinish ==
    /\ pc = "loop"
    /\ endpoint = "gif1s"
    /\ ~JsLess(Num(i), nframes)
    /\ \E ok \in BOOLEAN :
        IF ok
        THEN /\ enc' = [enc EXCEPT !.finished = TRUE]
             /\ hdr' = [contentType |-> "image/gif", cacheControl |-> NoStore]
             /\ responses' = <<SendImage("image/gif", Len(frames), enc'.finished)>>
             /\ pc' = "done"
             /\ UNCHANGED fault
        ELSE /\ Fail("encode", "GIF error", hdr)
             /\ UNCHANGED <<enc, hdr>>
    /\ UNCHANGED <<now, endpoint, q, p, total, i, nframes, frames, splitVars, pairVars>>

\* The handler returns: everything built for the request is dropped.
EndRequest ==
    /\ pc = "done"
    /\ pc' = "idle"
    /\ endpoint' = "none"
    /\ q' = NoQuery
    /\ p' = Thrown
    /\ total' = 0
    /\ i' = 0
    /\ enc' = NoEnc
    /\ nframes' = Num(0)
    /\ frames' = <<>>
    /\ hdr' = NoHeaders
    /\ responses' = <<>>
    /\ fault' = "none"
    /\ UNCHANGED <<now, splitVars, pairVars>>

Next ==
    \/ Tick
    \/ EndRequest
    \/ HandlePng
    \/ HandleGif
    \/ GifFrame
    \/ GifFinish
    \/ HandleGif1s
    \/ Gif1sFrame
    \/ Gif1sFinish

Spec == Init /\ [][Next]_vars

(***************************************************************************)
(* splitDHMS on its own: every total from 0 to MaxSeconds.                 *)
(***************************************************************************)
InitSplit ==
    /\ now = 0
    /\ MainIdle
    /\ PairIdle
    /\ sIn \in 0..MaxSeconds
    /\ dhmsOut = ZeroDHMS
    /\ splitPc = "idle"

Split ==
    /\ splitPc = "idle"
    /\ dhmsOut' = splitDHMS(sIn)
    /\ splitPc' = "done"
    /\ UNCHANGED <<now, mainVars, pairVars, sIn>>

NextSplit == Split

SpecSplit == InitSplit /\ [][NextSplit]_vars

(***************************************************************************)
(* getParams on its own: raw sizes around both ends of the ranges.         *)
(***************************************************************************)
WidthSamples  == {-1, 0, 399, 400, 401, 800, 1999, 2000, 2001, 99999}
HeightSamples == {-1, 0, 119, 120, 121, 200, 799, 800, 801, 99999}

WidthInputs  == {Absent, Empty, Junk, IntPx(500)} \cup {IntStr(n) : n \in WidthSamples}
HeightInputs == {Absent, Empty, Junk, IntPx(500)} \cup {IntStr(n) : n \in HeightSamples}

WideQueries == [to : {Absent, Empty, Junk, Date(50)},
                tz : {"", "Australia/Perth", "Mars/Olympus"},
                w : WidthInputs, h : HeightInputs,
                fps : {Absent, Junk, IntStr(5)}, dur : {Absent}]

InitParams ==
    /\ now \in 0..MaxNow
    /\ q \in WideQueries
    /\ pc = "idle"
    /\ endpoint = "none"
    /\ p = Thrown
    /\ total = 0
    /\ i = 0
    /\ enc = NoEnc
    /\ nframes = Num(0)
    /\ frames = <<>>
    /\ hdr = NoHeaders
    /\ responses = <<>>
    /\ fault = "none"
    /\ SplitIdle
    /\ PairIdle

\* server.js, getParams(req.query)
ResolveA ==
    /\ pc = "idle"
    /\ p' = getParamsA(q, now)
    /\ endpoint' = "gif"
    /\ pc' = "resolved"
    /\ UNCHANGED <<now, q, total, i, enc, nframes, frames, hdr, responses, fault,
                   splitVars, pairVars>>

\* part_000, getParams(req.query)
ResolveB ==
    /\ pc = "idle"
    /\ p' = getParamsB(q, now)
    /\ endpoint' = "gif1s"
    /\ pc' = "resolved"
    /\ UNCHANGED <<now, q, total, i, enc, nframes, frames, hdr, responses, fault,
                   splitVars, pairVars>>

NextParams == ResolveA \/ ResolveB

SpecParams == InitParams /\ [][NextParams]_vars

(***************************************************************************)
(* Two sequences built one after the other from one resolved config and    *)
(* one captured start value, while the clock moves on.                     *)
(***************************************************************************)
PairQueries == [to : {Absent, Date(3), Date(90125)}, tz : {""}, w : {Absent},
                h : {Absent}, fps : {Absent, Junk, IntStr(1), IntStr(3), IntStr(20)},
                dur : {Absent}]

PairStart ==
    /\ pairPc = "idle"
    /\ \E profile \in {"gif", "gif1s"}, query \in PairQueries :
        LET params == IF profile = "gif" THEN getParamsA(query, now)
                      ELSE getParamsB(query, now)
        IN  pairCfg' = [profile |-> profile, params |-> params,
                        total |-> IntMax(0, params.target.t - now),
                        count |-> IF profile = "gif" THEN FrameCountA(params)
                                  ELSE Num(Gif1sFrames)]
    /\ pairPc' = "first"
    /\ seqA' = <<>>
    /\ seqB' = <<>>
    /\ pairClock' = <<now, now>>
    /\ UNCHANGED <<now, mainVars, splitVars>>

\* The frame at index k of a sequence, rendered when the clock shows `clock`.
PairRender(k, clock) ==
    IF pairCfg.profile = "gif"
    THEN RenderFrameA(pairCfg.params, pairCfg.total, k,
                      FrameNowMs(clock, k, pairCfg.params))
    ELSE RenderFrameB(pairCfg.params, pairCfg.total, k)

PairFrameA ==
    /\ pairPc = "first"
    /\ JsLess(Num(Len(seqA)), pairCfg.count)
    /\ seqA' = Append(seqA, PairRender(Len(seqA), now))
    /\ pairClock' = <<now, pairClock[2]>>
    /\ UNCHANGED <<now, mainVars, splitVars, pairPc, pairCfg, seqB>>

PairFrameB ==
    /\ pairPc = "second"
    /\ JsLess(Num(Len(seqB)), pairCfg.count)
    /\ seqB' = Append(seqB, PairRender(Len(seqB), now))
    /\ pairClock' = <<pairClock[1], now>>
    /\ UNCHANGED <<now, mainVars, splitVars, pairPc, pairCfg, seqA>>

PairFirstDone ==
    /\ pairPc = "first"
    /\ ~JsLess(Num(Len(seqA)), pairCfg.count)
    /\ pairPc' = "second"
    /\ UNCHANGED <<now, mainVars, splitVars, pairCfg, seqA, seqB, pairClock>>

PairSecondDone ==
    /\ pairPc = "second"
    /\ ~JsLess(Num(Len(seqB)), pairCfg.count)
    /\ pairPc' = "done"
    /\ UNCHANGED <<now, mainVars, splitVars, pairCfg, seqA, seqB, pairClock>>

NextPair ==
    \/ Tick
    \/ PairStart
    \/ PairFrameA
    \/ PairFrameB
    \/ PairFirstDone
    \/ PairSecondDone

SpecPair == Init /\ [][NextPair]_vars

(***************************************************************************)
(* The claims.                                                             *)
(***************************************************************************)
InRange(x, lo, hi) == ~x.nan /\ lo <= x.v /\ x.v <= hi

\* C1: for every raw width (absent, an integer string, a non-numeric string)
\* the width getParams resolves lies in [400, 2000] and equals the input when
\* the input is an integer already in that range; the same for the height and
\* [120, 800].
C1_SizesClamped ==
    (pc = "resolved" /\ ~p.threw) =>
        /\ InRange(p.width, 400, 2000)
        /\ InRange(p.height, 120, 800)
        /\ (q.w.k = "int" /\ q.w.v \in 400..2000 => p.width = Num(q.w.v))
        /\ (q.h.k = "int" /\ q.h.v \in 120..800 => p.height = Num(q.h.v))

\* C2: getParams is total: whatever the raw parameters (an unparseable deadline,
\* an unknown zone id) it returns a config without raising, its target is a
\* valid instant, and an absent or unparseable deadline gives now + 24 hours.
C2_GetParamsTotal ==
    pc = "resolved" =>
        /\ ~p.threw
        /\ p.target.valid
        /\ (q.to.k # "date" => p.target.t = now + 86400)

\* C3: for every non-negative integer s, splitDHMS(s) has non-negative
\* components that add up to s, with hours < 24, minutes < 60 and seconds < 60;
\* splitDHMS(90125) is 1 day, 1 hour, 2 minutes, 5 seconds.
C3_SplitExact ==
    splitPc = "done" =>
        /\ dhmsOut.days >= 0 /\ dhmsOut.hours >= 0
        /\ dhmsOut.minutes >= 0 /\ dhmsOut.seconds >= 0
        /\ dhmsOut.days * 86400 + dhmsOut.hours * 3600
             + dhmsOut.minutes * 60 + dhmsOut.seconds = sIn
        /\ dhmsOut.hours < 24 /\ dhmsOut.minutes < 60 /\ dhmsOut.seconds < 60
        /\ (sIn = 90125 =>
              dhmsOut = [days |-> 1, hours |-> 1, minutes |-> 2, seconds |-> 5])

C3_Witness ==
    /\ splitPc = "done"
    /\ sIn = 90125
    /\ dhmsOut = [days |-> 1, hours |-> 1, minutes |-> 2, seconds |-> 5]

\* C4: in every animated sequence frame i shows max(0, R0 - i*T), R0 the
\* remaining seconds captured at the start and T the per-frame delay of the
\* sequence (here in milliseconds on both sides).
C4_DropsByFrameDelay ==
    (endpoint \in {"gif", "gif1s"} /\ ~enc.delay.nan) =>
        \A k \in 1..Len(frames) :
            Shown(frames[k].dhms) * 1000
                = IntMax(0, total * 1000 - (k - 1) * enc.delay.v)

\* C5: when the target is at or before the reference instant every rendered
\* frame, still or animated, shows 0 days, 0 hours, 0 minutes, 0 seconds; no
\* frame ever shows a negative component, and the frames from the one at
\* which an animated countdown reaches the deadline on show all zeros.
C5_ZeroAfterDeadline ==
    \A k \in 1..Len(frames) :
        LET d == frames[k].dhms IN
        /\ d.days >= 0 /\ d.hours >= 0 /\ d.minutes >= 0 /\ d.seconds >= 0
        /\ (total <= 0 => d = ZeroDHMS)
        /\ (endpoint \in {"gif", "gif1s"} /\ k - 1 >= total => d = ZeroDHMS)

C5_Witness ==
    /\ endpoint = "gif1s"
    /\ pc = "done"
    /\ fault = "none"
    /\ p.target.t < now
    /\ Len(frames) = 180
    /\ frames[180].remain < 0
    /\ frames[180].dhms = ZeroDHMS

C7_FramesAndDelayBounded ==
    (endpoint = "gif" /\ enc.started) =>
        /\ ~enc.delay.nan /\ enc.delay.v > 0
        /\ Len(frames) <= 60
        /\ (pc = "done" /\ fault = "none" => Len(frames) >= 1)

\* C8: every request gets exactly one response, a complete image or a
\* failure: when rasterizing or encoding fails at any frame the response is a
\* single 500 with no image bytes and no image content type; an image (with
\* Cache-Control holding no-store) is sent only after every frame was added
\* and the encoder finished.
C8_OneResponseAllOrNothing ==
    /\ Len(responses) = (IF pc = "done" THEN 1 ELSE 0)
    /\ pc = "done" =>
        LET r == responses[1] IN
        /\ fault # "none" =>
              /\ r.status = 500
              /\ r.body.kind = "text"
              /\ r.contentType \notin ImageTypes
        /\ r.body.kind = "image" =>
              /\ fault = "none"
              /\ r.status = 200
              /\ r.contentType \in ImageTypes
              /\ "no-store" \in r.cacheControl
              /\ r.body.finished
              /\ r.body.frames = Len(frames)
              /\ ~JsLess(Num(Len(frames)), nframes)
              /\ (endpoint # "png" => enc.finished)
        /\ r.body.kind \in {"image", "text"}

C8_Witness ==
    /\ pc = "done"
    /\ endpoint = "gif"
    /\ fault = "raster"
    /\ i > 0
    /\ JsLess(Num(i + 1), nframes)
    /\ Len(responses) = 1
    /\ responses[1].status = 500
    /\ responses[1].body.kind = "text"

\* C9: two animated sequences built from the same resolved config and the
\* same captured start value have the same number of frames and, at every
\* index, the same decomposition, blink flag and markup, whatever the clock
\* showed while each frame was built.
C9_SequencesAgree ==
    /\ Len(seqB) <= Len(seqA)
    /\ \A k \in 1..Len(seqB) : seqB[k] = seqA[k]
    /\ (pairPc = "done" => Len(seqA) = Len(seqB))

C9_Witness ==
    /\ pairPc = "done"
    /\ pairCfg.profile = "gif"
    /\ Len(seqA) = 60
    /\ seqB = seqA
    /\ pairClock[1] # pairClock[2]
    /\ seqA[1].remain > 0

\* C10: for every allowed fps an animated sequence holds both frames with
\* dimmed separators (opacity 0.25) and frames with opaque ones (opacity 1);
\* a still render always has opaque separators.
C10_BlinkBothStates ==
    (pc = "done" /\ fault = "none" /\ ~p.fps.nan) =>
        IF endpoint = "png"
        THEN \A k \in 1..Len(frames) : frames[k].svg.sepOpacity = 100
        ELSE /\ \E k \in 1..Len(frames) : frames[k].svg.sepOpacity = 25
             /\ \E k \in 1..Len(frames) : frames[k].svg.sepOpacity = 100

====
